---- MODULE Spec2Model ----
(***************************************************************************)
(* Model of fenics_adjoint/assembly.py: the overloaded assemble() and      *)
(* assemble_system(), and the tape node AssembleBlock with its four        *)
(* propagation operations (recompute, evaluate_adj, evaluate_tlm,          *)
(* evaluate_hessian).                                                      *)
(*                                                                         *)
(* A form is a monomial: the sequence of its coefficient occurrences and   *)
(* its rank (0 functional, 1 linear form, 2 bilinear form).  A coefficient *)
(* is identified by its UFL count.  Assembled objects have one degree of   *)
(* freedom, so an assembled derivative is one integer.                     *)
(***************************************************************************)
EXTENDS Integers, Sequences, FiniteSets, TLC

\* ---------------------------------------------------------------- bounds
\* functionals assembled in one run of the propagation specification
MaxBlocks == 1
\* functionals assembled in one run of the interception specification
MaxVals == 2
\* propagation calls (recompute / adj / tlm / hessian) in one run
MaxCalls == 2
\* depth of stop_annotating regions the caller of this module has open
MaxDepth == 1
\* coefficient occurrences of a form checked by the construction law
MaxFormLen == 3

\* ------------------------------------------------------------ coefficients
Coeffs == 1..5

\* isinstance(c, backend.Function / Constant / Expression); "Other" is an
\* overloaded coefficient that is none of the three.
KindOf(c) ==
    CASE c % 5 = 1 -> "Other"
      [] c % 5 = 2 -> "Function"
      [] c % 5 = 3 -> "Expression"
      [] c % 5 = 4 -> "Constant"
      [] OTHER     -> "Other"

Recognized(c) == KindOf(c) \in {"Function", "Constant", "Expression"}

\* the value of block_output.get_output(): the live coefficient
LiveValue(c) == 1
\* the value of block_output.get_saved_output(): the checkpoint
SavedValue(c) == 2 + (c % 2)

\* ------------------------------------------------------------------ values
\* A Python value that is None, a number, or a list of (number, space)
\* pairs.
None == [tag |-> "none", num |-> 0, list |-> << >>]
Num(n) == [tag |-> "num", num |-> n, list |-> << >>]
Pairs(l) == [tag |-> "list", num |-> 0, list |-> l]
IsNone(v) == v.tag = "none"

Add(acc, v) ==
    \* BlockOutput.add_*_output: the first contribution is stored, a later
    \* one is added with += (numbers add, lists concatenate)
    IF IsNone(acc) THEN v
    ELSE IF acc.tag = "num" /\ v.tag = "num" THEN Num(acc.num + v.num)
    ELSE Pairs(acc.list \o v.list)

\* ------------------------------------------------------------------- forms
RECURSIVE SortedSeq(_)
SortedSeq(S) ==
    IF S = {} THEN << >>
    ELSE LET m == CHOOSE x \in S : \A y \in S : x <= y
         IN  <<m>> \o SortedSeq(S \ {m})

Range(s) == {s[i] : i \in 1..Len(s)}

\* form.coefficients(): the distinct coefficients, sorted by count
coefficients(form) == SortedSeq(Range(form.coeffs))

\* the terminals of the expression tree, one per occurrence
terminals(form) == form.coeffs

\* A term of a (substituted, differentiated) form: a coefficient object,
\* live or checkpointed.
Live(c) == <<c, "live">>
Saved(c) == <<c, "saved">>
TermValue(t) == IF t[2] = "saved" THEN SavedValue(t[1]) ELSE LiveValue(t[1])

\* replaced_coeffs.get(c, c)
get_rep(replaced_coeffs, c) ==
    IF c \in replaced_coeffs THEN Saved(c) ELSE Live(c)

\* backend.replace(self.form, replaced_coeffs): a fresh form, the original
\* is not touched
replace(form, replaced_coeffs) ==
    [coef |-> 1,
     occ  |-> [i \in 1..Len(form.coeffs) |->
                 get_rep(replaced_coeffs, form.coeffs[i])]]

Count(occ, t) == Cardinality({i \in 1..Len(occ) : occ[i] = t})

RemoveOne(occ, t) ==
    LET k == CHOOSE i \in 1..Len(occ) :
                 occ[i] = t /\ \A j \in 1..(i-1) : occ[j] # t
    IN  [i \in 1..(Len(occ)-1) |-> IF i < k THEN occ[i] ELSE occ[i+1]]

\* backend.derivative(form, wrt, direction), direction given by its value
\* (1 for a TestFunction of the one-dof space)
derivative(f, wrt, dir) ==
    IF Count(f.occ, wrt) = 0 THEN [coef |-> 0, occ |-> << >>]
    ELSE [coef |-> f.coef * Count(f.occ, wrt) * dir,
          occ  |-> RemoveOne(f.occ, wrt)]

RECURSIVE Product(_)
Product(occ) ==
    IF occ = << >> THEN 1 ELSE TermValue(Head(occ)) * Product(Tail(occ))

\* backend.assemble(form) of a substituted form: its number
backend_assemble(f) == f.coef * Product(f.occ)

\* ------------------------------------------------------------------ inputs
Form(occ, rank) == [coeffs |-> occ, rank |-> rank]

\* functionals (assembled to a float)
ScalarForms ==
    { Form(<<2, 2>>, 0), Form(<<1, 2>>, 0), Form(<<2, 5>>, 0),
      Form(<<4, 3, 4>>, 0), Form(<< >>, 0) }
\* linear forms (assembled to a vector)
LinearForms == { Form(<<2>>, 1), Form(<<3, 3>>, 1) }
\* bilinear forms (assembled to a matrix)
BilinearForms == { Form(<< >>, 2), Form(<<4>>, 2) }
Forms == ScalarForms \cup LinearForms \cup BilinearForms

\* positional and keyword arguments of assemble_system
SystemArgs ==
    { <<A, b>> : A \in BilinearForms, b \in LinearForms }
    \cup { <<A, b, bcs>> : A \in BilinearForms, b \in LinearForms,
                          bcs \in { << >>, <<"bc1">> } }
NoKwargs == [k \in {} |-> << >>]
SystemKwargs == { NoKwargs, [bcs |-> << >>], [bcs |-> <<"bc2", "bc3">>] }
AdjSeeds == {-1, 2}
HessSeeds == {3}
TlmValues == {5}

\* ------------------------------------------------------------------- state
VARIABLES
    tape,    \* get_working_tape(): the sequence of blocks
    dep,     \* the BlockOutput of each coefficient: its accumulators
    depth,   \* pyadjoint.tape._stop_annotating
    nvals,   \* annotated floats created so far
    calls,   \* propagation calls made so far
    ret,     \* what the last call of assemble / assemble_system returned
    last     \* the last operation: its name, exit and add_*_output calls

vars == <<tape, dep, depth, nvals, calls, ret, last>>

NoForm == Form(<< >>, -1)
Unset == [form |-> NoForm, bcs |-> <<"unset">>]
NoRet == [kind |-> "none", id |-> 0, A |-> Unset, b |-> Unset]
\* a call: its name and arguments, the block it ran on, how it ended
\* ("none": it returned), the add_*_output calls it made in order, the
\* recording depth its body ran at, and the local variable annotate
Call(name, args, kwargs, blk, err, log, inside, annotate) ==
    [op |-> name, args |-> args, kwargs |-> kwargs, blk |-> blk, err |-> err,
     log |-> log, inside |-> inside, annotate |-> annotate]
Op(name, blk, err, log, inside, annotate) ==
    Call(name, << >>, NoKwargs, blk, err, log, inside, annotate)

\* ---------------------------------------------------------- pyadjoint.tape
\* stop_annotating.__enter__ / __exit__
stop_annotating_enter(d) == d + 1
stop_annotating_exit(d) == d - 1

\* annotate_tape(kwargs): the "annotate_tape" keyword (default True), and
\* False inside any stop_annotating region
annotate_tape(kw, d) == kw /\ d = 0

\* variant: the region is entered and never left
with_stop_annotating_leaky(d) ==
    [inside |-> stop_annotating_enter(d), after |-> stop_annotating_enter(d)]

\* "with stop_annotating(): body": the depth the body runs at and the depth
\* after the block, on the normal and on the exceptional exit alike
with_stop_annotating(d) ==
    [inside |-> stop_annotating_enter(d),
     after  |-> stop_annotating_exit(stop_annotating_enter(d))]

\* "@no_annotations": the method body runs in "with stop_annotating()"
no_annotations(d) == with_stop_annotating(d)

\* ------------------------------------------------------------ AssembleBlock
\* variant: one dependency per occurrence of a coefficient in the form
AssembleBlock_per_terminal(form) ==
    [form |-> form,
     deps |-> terminals(form),
     outputs |-> << >>,
     adj_value |-> None, hessian_value |-> None,
     tlm_value |-> None, checkpoint |-> None]

\* AssembleBlock.__init__(form): one dependency per form.coefficients()
AssembleBlock(form) ==
    [form |-> form,
     deps |-> coefficients(form),
     outputs |-> << >>,
     adj_value |-> None, hessian_value |-> None,
     tlm_value |-> None, checkpoint |-> None]

\* block.add_output(block_output)
add_output(block, id) == [block EXCEPT !.outputs = Append(@, id)]

\* ---------------------------------------------------------------- assemble
\* isinstance(output, float): backend.assemble gives a float for a
\* functional, a vector or matrix otherwise
IsFloat(form) == form.rank = 0

\* variant: the block is registered and its output never linked
assemble_tape_no_output(tp, form, annotate, id) ==
    IF form.rank = 0 /\ annotate THEN Append(tp, AssembleBlock(form)) ELSE tp

\* variant: a scalar is recorded whatever annotate says
assemble_tape_always(tp, form, annotate, id) ==
    IF form.rank = 0
    THEN Append(tp, [AssembleBlock(form) EXCEPT !.outputs = <<id>>])
    ELSE tp

\* the tape after assemble(form) returned: lines 19-28
assemble_tape(tp, form, annotate, id) ==
    IF IsFloat(form) /\ annotate
    THEN Append(tp, add_output(AssembleBlock(form), id))
    ELSE tp

\* the value assemble(form) returns: lines 19-33
assemble_output(form, id) ==
    IF IsFloat(form)
    THEN [kind |-> "float", id |-> id, A |-> Unset, b |-> Unset]
    ELSE [kind |-> "tensor", id |-> 0,
          A |-> [form |-> form, bcs |-> <<"unset">>], b |-> Unset]

\* assemble(form, annotate_tape=kw); fail: backend.assemble raises
assemble(form, kw, fail) ==
    LET annotate == annotate_tape(kw, depth)
        region == with_stop_annotating(depth)
        id == nvals + 1
    IN  /\ depth' = region.after
        /\ IF fail
           THEN /\ ret' = NoRet
                /\ last' = Call("assemble", <<form>>, [annotate_tape |-> kw],
                                0, "backend", << >>, region.inside, annotate)
                /\ UNCHANGED <<tape, nvals>>
           ELSE /\ tape' = assemble_tape(tape, form, annotate, id)
                /\ nvals' = IF IsFloat(form) THEN id ELSE nvals
                /\ ret' = assemble_output(form, id)
                /\ last' = Call("assemble", <<form>>, [annotate_tape |-> kw],
                                0, "none", << >>, region.inside, annotate)
        /\ UNCHANGED <<dep, calls>>

\* variant: the positional argument is looked at before the keyword
system_bcs_positional_first(args, kwargs) ==
    IF Len(args) > 2 THEN args[3]
    ELSE IF "bcs" \in DOMAIN kwargs THEN kwargs["bcs"]
    ELSE << >>

\* the boundary conditions assemble_system attaches: lines 46-51
system_bcs(args, kwargs) ==
    IF "bcs" \in DOMAIN kwargs THEN kwargs["bcs"]
    ELSE IF Len(args) > 2 THEN args[3]
    ELSE << >>

\* the pair assemble_system returns: lines 41-42 and 53-58
system_output(args, kwargs) ==
    [kind |-> "system", id |-> 0,
     A |-> [form |-> args[1], bcs |-> system_bcs(args, kwargs)],
     b |-> [form |-> args[2], bcs |-> system_bcs(args, kwargs)]]

\* assemble_system(*args, **kwargs); fail: backend.assemble_system raises.
\* No recording region is opened and the tape is not read.
assemble_system(args, kwargs, fail) ==
    /\ ret' = IF fail THEN NoRet ELSE system_output(args, kwargs)
    /\ last' = Call("assemble_system", args, kwargs, 0,
                    IF fail THEN "backend" ELSE "none", << >>, depth, FALSE)
    /\ UNCHANGED <<tape, dep, depth, nvals, calls>>

\* ------------------------------------------------- the caller and the tape
\* the caller opens or leaves a stop_annotating region of its own
EnterRegion ==
    /\ depth < MaxDepth
    /\ depth' = stop_annotating_enter(depth)
    /\ last' = Op("enter", 0, "none", << >>, depth, FALSE)
    /\ UNCHANGED <<tape, dep, nvals, calls, ret>>

ExitRegion ==
    /\ depth > 0
    /\ depth' = stop_annotating_exit(depth)
    /\ last' = Op("exit", 0, "none", << >>, depth, FALSE)
    /\ UNCHANGED <<tape, dep, nvals, calls, ret>>

\* a downstream block seeds the adjoint of block i's output
SeedAdj(i, s) ==
    /\ IsNone(tape[i].adj_value)
    /\ tape' = [tape EXCEPT ![i].adj_value = Num(s)]
    /\ last' = Op("seed_adj", i, "none", << >>, depth, FALSE)
    /\ UNCHANGED <<dep, depth, nvals, calls, ret>>

\* a downstream block seeds the Hessian of block i's output
SeedHessian(i, h) ==
    /\ IsNone(tape[i].hessian_value)
    /\ tape' = [tape EXCEPT ![i].hessian_value = Num(h)]
    /\ last' = Op("seed_hessian", i, "none", << >>, depth, FALSE)
    /\ UNCHANGED <<dep, depth, nvals, calls, ret>>

\* an upstream block (or the control) gives dependency c a tangent value
SetTlm(c, v) ==
    /\ \E i \in 1..Len(tape) : c \in Range(tape[i].deps)
    /\ IsNone(dep[c].tlm_value)
    /\ dep' = [dep EXCEPT ![c].tlm_value = Num(v)]
    /\ last' = Op("set_tlm", 0, "none", << >>, depth, FALSE)
    /\ UNCHANGED <<tape, depth, nvals, calls, ret>>

\* -------------------------------------------------------------- propagation
\* replaced_coeffs: a dict keyed by the coefficient of every dependency
\* (its value is that dependency's get_saved_output())
replaced_keys(blk) == Range(blk.deps)

\* the substituted form every operation starts from
substituted(blk) == replace(blk.form, replaced_keys(blk))

Contribution(c, v) == [dep |-> c, val |-> v]
Result(log, err) == [log |-> log, err |-> err]

\* the local variable dc of evaluate_adj: unbound, or a TestFunction of the
\* space of coefficient c
Unbound == << >>
TestFunction(c) == <<c>>

\* dc after the if / elif of lines 99-103: there is no else branch
adj_direction(c, dc) ==
    IF KindOf(c) = "Function" THEN TestFunction(c)
    ELSE IF KindOf(c) = "Constant" THEN TestFunction(c)
    ELSE dc

\* what one adjoint contribution is: lines 94-96 and 105-107
adj_contribution(f, c, adj_input) ==
    LET output == backend_assemble(derivative(f, Saved(c), 1))
    IN  IF KindOf(c) = "Expression"
        THEN Pairs(<< <<adj_input.num * output, c>> >>)
        ELSE Num(adj_input.num * output)

\* the loop of lines 83-107 from dependency k on; failAt: the dependency
\* at which backend.derivative or backend.assemble raises (0: none)
RECURSIVE adj_loop(_, _, _, _, _, _, _)
adj_loop(f, deps, k, dc, adj_input, failAt, log) ==
    IF k > Len(deps) THEN Result(log, "none")
    ELSE LET c == deps[k]
             here == Append(log, Contribution(c, adj_contribution(f, c, adj_input)))
         IN  IF KindOf(c) = "Expression"
             THEN IF failAt = k THEN Result(log, "backend")
                  ELSE adj_loop(f, deps, k + 1, TestFunction(c), adj_input,
                                failAt, here)
             ELSE LET dc2 == adj_direction(c, dc)
                  IN  IF dc2 = Unbound THEN Result(log, "UnboundLocalError")
                      ELSE IF failAt = k THEN Result(log, "backend")
                      ELSE adj_loop(f, deps, k + 1, dc2, adj_input, failAt, here)

\* variant: the seed is not tested for None
adj_body_unguarded(blk, failAt) ==
    adj_loop(substituted(blk), blk.deps, 1, Unbound, blk.adj_value,
             failAt, << >>)

\* the body of evaluate_adj: lines 72-107
adj_body(blk, failAt) ==
    IF IsNone(blk.adj_value) THEN Result(<< >>, "none")
    ELSE adj_loop(substituted(blk), blk.deps, 1, Unbound, blk.adj_value,
                  failAt, << >>)

RECURSIVE apply_adj(_, _)
apply_adj(d, log) ==
    IF log = << >> THEN d
    ELSE apply_adj([d EXCEPT ![Head(log).dep].adj_value = Add(@, Head(log).val)],
                   Tail(log))

evaluate_adj(i, failAt) ==
    LET region == no_annotations(depth)
        r == adj_body(tape[i], failAt)
    IN  /\ calls < MaxCalls
        /\ failAt = 0 \/ r.err = "backend"
        /\ calls' = calls + 1
        /\ depth' = region.after
        /\ dep' = apply_adj(dep, r.log)
        /\ last' = Op("evaluate_adj", i, r.err, r.log, region.inside, FALSE)
        /\ UNCHANGED <<tape, nvals, ret>>

\* what one tangent contribution is: lines 127-139
tlm_contribution(f, c, tlm_value) ==
    Num(backend_assemble(derivative(f, Saved(c), tlm_value.num)))

\* the loop of lines 118-139 from dependency k on
RECURSIVE tlm_loop(_, _, _, _, _, _)
tlm_loop(f, deps, k, d, failAt, log) ==
    IF k > Len(deps) THEN Result(log, "none")
    ELSE LET c == deps[k]
             tlm_value == d[c].tlm_value
         IN  IF IsNone(tlm_value) \/ ~Recognized(c)
             THEN tlm_loop(f, deps, k + 1, d, failAt, log)
             ELSE IF failAt = k THEN Result(log, "backend")
             ELSE tlm_loop(f, deps, k + 1, d, failAt,
                           Append(log, Contribution(c, tlm_contribution(f, c, tlm_value))))

tlm_body(blk, d, failAt) ==
    tlm_loop(substituted(blk), blk.deps, 1, d, failAt, << >>)

RECURSIVE apply_tlm(_, _)
apply_tlm(acc, log) ==
    IF log = << >> THEN acc
    ELSE apply_tlm(Add(acc, Head(log).val), Tail(log))

evaluate_tlm(i, failAt) ==
    LET region == no_annotations(depth)
        r == tlm_body(tape[i], dep, failAt)
    IN  /\ calls < MaxCalls
        /\ failAt = 0 \/ r.err = "backend"
        /\ calls' = calls + 1
        /\ depth' = region.after
        /\ tape' = [tape EXCEPT ![i].tlm_value = apply_tlm(@, r.log)]
        /\ last' = Op("evaluate_tlm", i, r.err, r.log, region.inside, FALSE)
        /\ UNCHANGED <<dep, nvals, ret>>

\* variant: an Expression gets a bare value like the others
hessian_wrap_bare(c1, x) == Num(x)

\* a Hessian contribution to c1: a (value, space) pair for an Expression,
\* a bare value otherwise: lines 185, 189, 193, 198-201
hessian_wrap(c1, x) ==
    IF KindOf(c1) = "Expression" THEN Pairs(<< <<x, c1>> >>) ELSE Num(x)

\* the inner loop of lines 174-195 from dependency k2 on; the branch taken
\* is chosen by the kind of c1
RECURSIVE hessian_inner(_, _, _, _, _, _, _)
hessian_inner(dform, deps, k2, c1, adj_input, d, log) ==
    IF k2 > Len(deps) THEN Result(log, "none")
    ELSE LET c2 == deps[k2]
             tlm_input == d[c2].tlm_value
         IN  IF IsNone(tlm_input) \/ ~Recognized(c1)
             THEN hessian_inner(dform, deps, k2 + 1, c1, adj_input, d, log)
             ELSE IF IsNone(adj_input) THEN Result(log, "TypeError")
             ELSE LET ddform == derivative(dform, Saved(c2), tlm_input.num)
                      output == backend_assemble(ddform)
                  IN  hessian_inner(dform, deps, k2 + 1, c1, adj_input, d,
                          Append(log, Contribution(c1,
                              hessian_wrap(c1, adj_input.num * output))))

\* the outer loop of lines 156-201 from dependency k1 on; failAt: the outer
\* dependency at which backend.derivative raises (0: none)
RECURSIVE hessian_outer(_, _, _, _, _, _, _)
hessian_outer(f, deps, k1, blk, d, failAt, log) ==
    IF k1 > Len(deps) THEN Result(log, "none")
    ELSE LET c1 == deps[k1]
             dform == derivative(f, Saved(c1), 1)
             inner == hessian_inner(dform, deps, 1, c1, blk.adj_value, d, log)
             output == backend_assemble(dform)
         IN  IF ~Recognized(c1)
             THEN hessian_outer(f, deps, k1 + 1, blk, d, failAt, log)
             ELSE IF failAt = k1 THEN Result(log, "backend")
             ELSE IF inner.err # "none" THEN inner
             ELSE hessian_outer(f, deps, k1 + 1, blk, d, failAt,
                      Append(inner.log, Contribution(c1,
                          hessian_wrap(c1, blk.hessian_value.num * output))))

\* the body of evaluate_hessian: lines 143-201
hessian_body(blk, d, failAt) ==
    IF IsNone(blk.hessian_value) THEN Result(<< >>, "none")
    ELSE hessian_outer(substituted(blk), blk.deps, 1, blk, d, failAt, << >>)

RECURSIVE apply_hessian(_, _)
apply_hessian(d, log) ==
    IF log = << >> THEN d
    ELSE apply_hessian(
             [d EXCEPT ![Head(log).dep].hessian_value = Add(@, Head(log).val)],
             Tail(log))

evaluate_hessian(i, failAt) ==
    LET region == no_annotations(depth)
        r == hessian_body(tape[i], dep, failAt)
    IN  /\ calls < MaxCalls
        /\ failAt = 0 \/ r.err = "backend"
        /\ calls' = calls + 1
        /\ depth' = region.after
        /\ dep' = apply_hessian(dep, r.log)
        /\ last' = Op("evaluate_hessian", i, r.err, r.log, region.inside, FALSE)
        /\ UNCHANGED <<tape, nvals, ret>>

\* the checkpoint recompute stores: lines 210-215
recompute_checkpoint(blk) == Num(backend_assemble(substituted(blk)))

recompute(i, fail) ==
    LET region == no_annotations(depth)
    IN  /\ calls < MaxCalls
        /\ calls' = calls + 1
        /\ depth' = region.after
        /\ tape' = IF fail THEN tape
                   ELSE [tape EXCEPT ![i].checkpoint = recompute_checkpoint(tape[i])]
        /\ last' = Op("recompute", i, IF fail THEN "backend" ELSE "none", << >>,
                      region.inside, FALSE)
        /\ UNCHANGED <<dep, nvals, ret>>

\* ------------------------------------------------------------ specification
Init ==
    /\ tape = << >>
    /\ dep = [c \in Coeffs |->
                [adj_value |-> None, hessian_value |-> None, tlm_value |-> None]]
    /\ depth = 0
    /\ nvals = 0
    /\ calls = 0
    /\ ret = NoRet
    /\ last = Op("init", 0, "none", << >>, 0, FALSE)

Next ==
    \/ \E form \in ScalarForms, kw \in BOOLEAN, fail \in BOOLEAN :
           nvals < MaxBlocks /\ assemble(form, kw, fail)
    \/ EnterRegion
    \/ ExitRegion
    \/ \E i \in 1..Len(tape), s \in AdjSeeds : SeedAdj(i, s)
    \/ \E i \in 1..Len(tape), h \in HessSeeds : SeedHessian(i, h)
    \/ \E c \in Coeffs, v \in TlmValues : SetTlm(c, v)
    \/ \E i \in 1..Len(tape) : \E failAt \in 0..Len(tape[i].deps) :
           evaluate_adj(i, failAt)
    \/ \E i \in 1..Len(tape) : \E failAt \in 0..Len(tape[i].deps) :
           evaluate_tlm(i, failAt)
    \/ \E i \in 1..Len(tape) : \E failAt \in 0..Len(tape[i].deps) :
           evaluate_hessian(i, failAt)
    \/ \E i \in 1..Len(tape), fail \in BOOLEAN : recompute(i, fail)

\* recording and propagation: functionals are assembled, seeded and
\* propagated through
Spec == Init /\ [][Next]_vars

NextAsm ==
    \/ \E form \in Forms, kw \in BOOLEAN, fail \in BOOLEAN :
           (IsFloat(form) => nvals < MaxVals) /\ assemble(form, kw, fail)
    \/ \E args \in SystemArgs, kwargs \in SystemKwargs, fail \in BOOLEAN :
           assemble_system(args, kwargs, fail)
    \/ EnterRegion
    \/ ExitRegion

\* interception: every kind of form is assembled, alone or as a system
SpecAsm == Init /\ [][NextAsm]_vars

\* every form of at most MaxFormLen coefficient occurrences
RECURSIVE SeqsUpTo(_, _)
SeqsUpTo(S, n) ==
    IF n = 0 THEN { << >> }
    ELSE LET shorter == SeqsUpTo(S, n - 1)
         IN  shorter \cup { Append(q, x) : q \in shorter, x \in S }

BoundedForms == { Form(occ, 0) : occ \in SeqsUpTo(Coeffs, MaxFormLen) }

\* AssembleBlock(form) is constructed, and then once more from the same form
Construct(form) ==
    /\ \/ tape = << >>
       \/ Len(tape) = 1 /\ tape[1].form = form
    /\ tape' = Append(tape, AssembleBlock(form))
    /\ last' = Call("AssembleBlock", <<form>>, NoKwargs, Len(tape) + 1, "none",
                    << >>, depth, FALSE)
    /\ UNCHANGED <<dep, depth, nvals, calls, ret>>

NextBlock == \E form \in BoundedForms : Construct(form)

\* node construction alone, over every bounded form
SpecBlock == Init /\ [][NextBlock]_vars

\* ================================================================== claims
IsPropagation(name) ==
    name \in {"recompute", "evaluate_adj", "evaluate_tlm", "evaluate_hessian"}

NoDuplicates(q) == \A i, j \in 1..Len(q) : q[i] = q[j] => i = j
Ascending(q) == \A i, j \in 1..Len(q) : i < j => q[i] < q[j]

\* the contributions a call made to dependency c, in order
RECURSIVE LogOf(_, _)
LogOf(log, c) ==
    IF log = << >> THEN << >>
    ELSE IF Head(log).dep = c THEN <<Head(log).val>> \o LogOf(Tail(log), c)
    ELSE LogOf(Tail(log), c)

RECURSIVE Fold(_, _)
Fold(acc, vals) ==
    IF vals = << >> THEN acc ELSE Fold(Add(acc, Head(vals)), Tail(vals))

\* the monomial's derivatives at the checkpointed values, in closed form
Mult(form, c) == Cardinality({i \in 1..Len(form.coeffs) : form.coeffs[i] = c})
RECURSIVE Power(_, _)
Power(b, e) == IF e <= 0 THEN 1 ELSE b * Power(b, e - 1)
RECURSIVE Rest(_, _, _)
Rest(form, S, skip) ==
    IF S = {} THEN 1
    ELSE LET c == CHOOSE x \in S : TRUE
         IN  (IF c \in skip THEN 1 ELSE Power(SavedValue(c), Mult(form, c)))
             * Rest(form, S \ {c}, skip)
FirstDerivative(form, c) ==
    Mult(form, c) * Power(SavedValue(c), Mult(form, c) - 1)
        * Rest(form, Range(form.coeffs), {c})
SecondDerivative(form, c1, c2) ==
    IF c1 = c2
    THEN Mult(form, c1) * (Mult(form, c1) - 1)
             * Power(SavedValue(c1), Mult(form, c1) - 2)
             * Rest(form, Range(form.coeffs), {c1})
    ELSE Mult(form, c1) * Mult(form, c2)
             * Power(SavedValue(c1), Mult(form, c1) - 1)
             * Power(SavedValue(c2), Mult(form, c2) - 1)
             * Rest(form, Range(form.coeffs), {c1, c2})

\* a contribution to c in c's representation: a single (value, space) pair
\* for an Expression, a bare value for a Function or a Constant
Shaped(c, x) ==
    IF KindOf(c) = "Expression" THEN Pairs(<< <<x, c>> >>) ELSE Num(x)

\* C1: an assemble() call made while annotation is active and giving a
\* scalar runs the backend assembly with recording suspended, and appends
\* to the tape exactly one AssembleBlock, which holds the given form and
\* has exactly one output: the slot of the value assemble() returns.
C1_ScalarAssembleRecordsOneBlock ==
    [][ (last'.op = "assemble" /\ last'.annotate /\ ret'.kind = "float")
        => /\ last'.inside > 0
           /\ Len(tape') = Len(tape) + 1
           /\ SubSeq(tape', 1, Len(tape)) = tape
           /\ tape'[Len(tape')].form = last'.args[1]
           /\ tape'[Len(tape')].outputs = <<ret'.id>>
           /\ \A i \in 1..Len(tape) : ret'.id \notin Range(tape[i].outputs) ]_vars

C1_Witness ==
    /\ last.op = "assemble" /\ last.annotate /\ ret.kind = "float"
    /\ Len(tape) = 2
    /\ tape[2].outputs = <<ret.id>>

\* C2: the tape is unchanged by an assemble() call made while annotation is
\* inactive, by an assemble() call that gives a vector or a matrix, and by
\* every assemble_system() call.
C2_TapeUntouched ==
    [][ ( \/ last'.op = "assemble" /\ ~last'.annotate
          \/ last'.op = "assemble" /\ ret'.kind = "tensor"
          \/ last'.op = "assemble_system" )
        => tape' = tape ]_vars

C2_Witness ==
    /\ Len(tape) = 1
    /\ last.op = "assemble" /\ ~last.annotate /\ ret.kind = "float"
    /\ last.kwargs["annotate_tape"]

\* C3: a vector or matrix returned by assemble() carries the form passed as
\* first argument; assemble_system() returns (A, b) with A.form the bilinear
\* form, b.form the linear form, and A.bcs and b.bcs the same list: the
\* "bcs" keyword argument if given, else the third positional argument if
\* given, else the empty list.
C3_FormAndBcsAttached ==
    /\ (last.op = "assemble" /\ ret.kind = "tensor")
           => ret.A.form = last.args[1]
    /\ (last.op = "assemble_system" /\ last.err = "none")
           => /\ ret.kind = "system"
              /\ ret.A.form = last.args[1]
              /\ ret.b.form = last.args[2]
              /\ ret.A.bcs = ret.b.bcs
              /\ ("bcs" \in DOMAIN last.kwargs) => ret.A.bcs = last.kwargs["bcs"]
              /\ ("bcs" \notin DOMAIN last.kwargs /\ Len(last.args) = 3)
                     => ret.A.bcs = last.args[3]
              /\ ("bcs" \notin DOMAIN last.kwargs /\ Len(last.args) = 2)
                     => ret.A.bcs = << >>

C3_Witness ==
    /\ last.op = "assemble_system" /\ ret.kind = "system"
    /\ "bcs" \in DOMAIN last.kwargs /\ Len(last.args) = 3
    /\ last.kwargs["bcs"] # last.args[3]
    /\ ret.b.bcs = last.kwargs["bcs"]

RECURSIVE WithTangent(_, _)
WithTangent(deps, d) ==
    IF deps = << >> THEN << >>
    ELSE (IF IsNone(d[Head(deps)].tlm_value) THEN << >> ELSE <<Head(deps)>>)
         \o WithTangent(Tail(deps), d)

\* C5: adjoint propagation on a node whose output has no adjoint seed,
\* tangent propagation on a node none of whose dependencies has a tangent
\* value, and Hessian propagation on a node whose output has no Hessian seed
\* return without error and change no accumulator of any dependency nor the
\* tangent accumulator of the output.
C5_NoSeedNoEffect ==
    [][ ( \/ /\ last'.op = "evaluate_adj"
             /\ IsNone(tape[last'.blk].adj_value)
          \/ /\ last'.op = "evaluate_tlm"
             /\ WithTangent(tape[last'.blk].deps, dep) = << >>
          \/ /\ last'.op = "evaluate_hessian"
             /\ IsNone(tape[last'.blk].hessian_value) )
        => /\ last'.err = "none"
           /\ last'.log = << >>
           /\ dep' = dep
           /\ tape' = tape ]_vars

C5_Witness ==
    /\ last.op = "evaluate_hessian"
    /\ IsNone(tape[last.blk].hessian_value)
    /\ ~IsNone(tape[last.blk].adj_value)
    /\ WithTangent(tape[last.blk].deps, dep) # << >>
    /\ \E c \in Range(tape[last.blk].deps) : Recognized(c)

\* C6: in adjoint propagation with a seed present, a dependency that is
\* neither a Function, a Constant nor an Expression is silently skipped
\* wherever it stands in the dependency list: it receives no contribution,
\* no error is raised, and the other dependencies are still processed.
C6_UnrecognizedSkippedInAdjoint ==
    [][ ( /\ last'.op = "evaluate_adj"
          /\ ~IsNone(tape[last'.blk].adj_value)
          /\ last'.err # "backend" )
        => /\ last'.err = "none"
           /\ \A c \in Range(tape[last'.blk].deps) :
                  IF Recognized(c)
                  THEN Len(LogOf(last'.log, c)) = 1
                  ELSE /\ LogOf(last'.log, c) = << >>
                       /\ dep'[c] = dep[c] ]_vars

\* C7: in Hessian propagation a dependency of unrecognized kind is skipped
\* in both roles: as outer dependency c1 it receives no contribution, and
\* as inner dependency c2 it adds nothing to any c1's accumulator, even
\* when it carries a tangent value.
C7_UnrecognizedSkippedInHessian ==
    [][ ( /\ last'.op = "evaluate_hessian"
          /\ ~IsNone(tape[last'.blk].hessian_value)
          /\ ~IsNone(tape[last'.blk].adj_value)
          /\ last'.err # "backend" )
        => \A c1 \in Range(tape[last'.blk].deps) :
               IF Recognized(c1)
               THEN Len(LogOf(last'.log, c1))
                      = 1 + Cardinality({c2 \in Range(WithTangent(tape[last'.blk].deps, dep)) :
                                            Recognized(c2)})
               ELSE /\ LogOf(last'.log, c1) = << >>
                    /\ dep'[c1] = dep[c1] ]_vars

\* C8: in one adjoint propagation call with seed s, every Function,
\* Constant or Expression dependency receives exactly one contribution,
\* s times the assembled derivative of the substituted form with respect to
\* the dependency's checkpointed value (a bare value, or one (value, space)
\* pair for an Expression), and the contribution is added to what the
\* accumulator held.
C8_AdjointContribution ==
    [][ ( /\ last'.op = "evaluate_adj"
          /\ ~IsNone(tape[last'.blk].adj_value)
          /\ last'.err # "backend" )
        => \A c \in Range(tape[last'.blk].deps) :
               Recognized(c)
               => LET s == tape[last'.blk].adj_value.num
                      contribution ==
                          Shaped(c, s * FirstDerivative(tape[last'.blk].form, c))
                  IN  /\ LogOf(last'.log, c) = <<contribution>>
                      /\ dep'[c].adj_value = Add(dep[c].adj_value, contribution) ]_vars

\* the k + 1 contributions C9 names for outer dependency c1 of block blk
RECURSIVE MixedTerms(_, _, _, _)
MixedTerms(blk, c1, tangents, d) ==
    IF tangents = << >> THEN << >>
    ELSE <<Shaped(c1, blk.adj_value.num
                        * SecondDerivative(blk.form, c1, Head(tangents))
                        * d[Head(tangents)].tlm_value.num)>>
         \o MixedTerms(blk, c1, Tail(tangents), d)

HessianTerms(blk, c1, d) ==
    MixedTerms(blk, c1, WithTangent(blk.deps, d), d)
    \o <<Shaped(c1, blk.hessian_value.num * FirstDerivative(blk.form, c1))>>

\* C9: in one Hessian propagation call with Hessian seed h and adjoint seed
\* a, every recognized outer dependency c1 receives exactly k + 1
\* contributions, k the number of dependencies carrying a tangent value:
\* for each such c2 in order, a times the assembled second derivative (by c1,
\* then by c2 in c2's tangent direction), and last h times the assembled
\* first derivative by c1; each is a (value, space) pair when c1 is an
\* Expression and a bare value otherwise.
C9_HessianContributions ==
    [][ ( /\ last'.op = "evaluate_hessian"
          /\ ~IsNone(tape[last'.blk].hessian_value)
          /\ ~IsNone(tape[last'.blk].adj_value)
          /\ last'.err # "backend" )
        => /\ last'.err = "none"
           /\ \A c1 \in Range(tape[last'.blk].deps) :
                  Recognized(c1)
                  => /\ LogOf(last'.log, c1) = HessianTerms(tape[last'.blk], c1, dep)
                     /\ Len(LogOf(last'.log, c1))
                          = Len(WithTangent(tape[last'.blk].deps, dep)) + 1
                     /\ dep'[c1].hessian_value
                          = Fold(dep[c1].hessian_value, LogOf(last'.log, c1)) ]_vars

C9_Witness ==
    /\ last.op = "evaluate_hessian" /\ last.err = "none"
    /\ ~IsNone(tape[last.blk].hessian_value)
    /\ ~IsNone(tape[last.blk].adj_value)
    /\ \E c1 \in Range(tape[last.blk].deps) :
           /\ KindOf(c1) = "Expression"
           /\ Len(LogOf(last.log, c1)) = 3
           /\ Len(dep[c1].hessian_value.list) = 3

\* C10: recording suspension is a nesting-safe scoped region: assemble(),
\* recompute, evaluate_adj, evaluate_tlm and evaluate_hessian leave the
\* suspension depth as they found it on every exit, an exception included;
\* each of the four propagation operations runs with recording suspended,
\* and the tape holds as many nodes after it as before.
C10_SuspensionScoped ==
    [][ /\ (last'.op = "assemble" \/ IsPropagation(last'.op))
            => /\ depth' = depth
               /\ last'.inside = depth + 1
        /\ IsPropagation(last'.op) => Len(tape') = Len(tape) ]_vars

C10_Witness ==
    /\ last.op = "evaluate_adj"
    /\ last.err \in {"backend", "UnboundLocalError"}
    /\ depth = 1
    /\ last.inside = 2

====
